---- MODULE Spec2Model ----
(***************************************************************************)
(* pydex: order store, Orderbook queries, OrderWatcherClient and the       *)
(* OrderUpdateHandler poll loop / notification handler, as a state machine. *)
(***************************************************************************)
EXTENDS Integers, Sequences, FiniteSets, TLC

(***************************************************************************)
(* Bounds of the model                                                     *)
(***************************************************************************)
\* the wall clock (now_epoch_msecs) runs over 1..MaxTime
MaxTime == 2
\* the order-watcher-server watches at most MaxOrderCount orders
MaxOrderCount == 2
\* the longest list paginate is given, and the greatest page and per_page
MaxItems == 5
MaxPage == 3
MaxPerPage == 3
\* the greatest maker / taker asset amount the price functions are given
MaxAmount == 3

None == "None"

(***************************************************************************)
(* OrderStatus (db_models.py)                                              *)
(***************************************************************************)
INVALID == -10
UNFILLABLE_UNFUNDED == -7
UNFILLABLE_CANCELLED_PARTIALLY_FILLED == -6
UNFILLABLE_CANCELLED == -5
UNFILLABLE_EXPIRED_PARTIALLY_FILLED == -4
UNFILLABLE_EXPIRED == -3
UNFILLABLE_FILLED == -2
UNFILLABLE == -1
MAYBE_FILLABLE == 0
FILLABLE == 1
FILLABLE_FULLY == 2
FILLABLE_PARTIALLY == 3

OrderStatus ==
    { INVALID, UNFILLABLE_UNFUNDED, UNFILLABLE_CANCELLED_PARTIALLY_FILLED,
      UNFILLABLE_CANCELLED, UNFILLABLE_EXPIRED_PARTIALLY_FILLED,
      UNFILLABLE_EXPIRED, UNFILLABLE_FILLED, UNFILLABLE, MAYBE_FILLABLE,
      FILLABLE, FILLABLE_FULLY, FILLABLE_PARTIALLY }

(***************************************************************************)
(* The orders that clients may submit.  An order's hash is a function of   *)
(* its non-signature fields, so the orders are indexed by their hash.      *)
(***************************************************************************)
Hashes == {"0xh1", "0xh2", "0xh3"}

OrderFields ==
    [h \in Hashes |->
        CASE h = "0xh1" -> [maker_asset_data |-> "weth", taker_asset_data |-> "long",
                            maker_asset_amount |-> 1, taker_asset_amount |-> 9,
                            maker_address |-> "0xm1"]
          [] h = "0xh2" -> [maker_asset_data |-> "weth", taker_asset_data |-> "long",
                            maker_asset_amount |-> 1, taker_asset_amount |-> 10,
                            maker_address |-> "0xm2"]
          [] h = "0xh3" -> [maker_asset_data |-> "short", taker_asset_data |-> "weth",
                            maker_asset_amount |-> 4, taker_asset_amount |-> 2,
                            maker_address |-> "0xm1"] ]

\* the orders that are submitted to the running system
Submitted == {"0xh1", "0xh3"}

\* values a submitted json may carry under the key "test_order_status"
TestOrderStatusValues == {MAYBE_FILLABLE, FILLABLE}

\* a submitted order json: the order's fields (named by their hash), whether
\* it satisfies /signedOrderSchema, and the extra key "test_order_status"
\* (<< >> when the json has no such key, << v >> when it maps to v)
OrderJsons ==
    [hash : Submitted, schema_valid : BOOLEAN,
     test_order_status : {<< >>} \cup { << v >> : v \in TestOrderStatusValues }]

(***************************************************************************)
(* Notifications of the order-watcher-server                               *)
(***************************************************************************)
\* keys of OrderUpdateHandler.unfillable_handlers; every key maps to
\* handle_unfillable_order
unfillable_handlers ==
    { "ORDER_FILL_EXPIRED", "ORDER_ALREADY_CANCELLED_OR_FILLED",
      "ORDER_REMAINING_FILL_AMOUNT_ZERO", "ORDER_FILL_ROUNDING_ERROR",
      "FILL_BALANCE_ALLOWANCE_ERROR", "INSUFFICIENT_TAKER_BALANCE",
      "INSUFFICIENT_TAKER_ALLOWANCE", "INSUFFICIENT_MAKER_BALANCE",
      "INSUFFICIENT_MAKER_ALLOWANCE",
      "TRANSACTION_SENDER_IS_NOT_FILL_ORDER_TAKER",
      "INSUFFICIENT_REMAINING_FILL_AMOUNT" }

\* the reason codes the modelled server sends: a key of the table, a code
\* that is no key, and a missing 'error' field
ReasonsSent == {"ORDER_FILL_EXPIRED", "NOT_A_REASON", None}

\* an inbound websocket message.  fmt: "notjson" (json.loads fails),
\* "nonobject" (json, but not subscriptable by a key), "noresult" (an object
\* without 'result'), "result_nondict" (an object whose 'result' is no
\* dict), "result" (an object with a 'result' dict whose orderHash / isValid
\* / error are as given, None when the key is missing)
MalformedMessages ==
    { [fmt |-> f, orderHash |-> None, isValid |-> None, error |-> None] :
        f \in {"notjson", "nonobject", "noresult", "result_nondict"} }
    \cup { [fmt |-> "result", orderHash |-> None, isValid |-> "True", error |-> None] }
    \cup { [fmt |-> "result", orderHash |-> "0xh1", isValid |-> None, error |-> None] }

WellFormedMessages ==
    { [fmt |-> "result", orderHash |-> h, isValid |-> "True", error |-> None] :
        h \in Submitted }
    \cup { [fmt |-> "result", orderHash |-> h, isValid |-> "False", error |-> r] :
             h \in Submitted, r \in ReasonsSent }

Messages == MalformedMessages \cup WellFormedMessages

NoMessage == [fmt |-> None, orderHash |-> None, isValid |-> None, error |-> None]

(***************************************************************************)
(* State                                                                   *)
(***************************************************************************)
VARIABLES
    store,              \* the signed_order table: hash -> row, for the stored hashes
    now,                \* the wall clock, now_epoch_msecs()
    running,            \* OrderUpdateHandler.running
    pc,                 \* position of OrderUpdateHandler.run
    last_update_at,     \* OrderUpdateHandler._last_update_at (0: None; the code
                        \* tests it for truth, so None and 0 act alike)
    fillables,          \* fetched fillables not yet re-pushed
    maybe_fillables,    \* fetched maybe_fillables not yet handled
    cur,                \* the order handle_maybe_fillable_order is handling
    order_count_before, \* its local order_count_before
    dirty,              \* orders set to FILLABLE in the poll session, uncommitted
    th,                 \* OrderWatcherClient._th is set
    ws,                 \* the listener thread running websoc.run_forever
    orderCount,         \* the order-watcher-server's orderCount
    ev,                 \* the last operation and what it did
    call,               \* the last call of a query or utility function: its
                        \* name, arguments and return value
    hasher,             \* the order whose hash is being computed and how
                        \* far the computation is
    client              \* an OrderWatcherClient driven by its caller

vars == << store, now, running, pc, last_update_at, fillables, maybe_fillables,
           cur, order_count_before, dirty, th, ws, orderCount, ev, call,
           hasher, client >>

poll_vars == << running, pc, last_update_at, fillables, maybe_fillables, cur,
                order_count_before, dirty >>

Stored == DOMAIN store

EmptyTable == [h \in {} |-> 0]

\* the table after INSERT of a row under primary key h
Insert(table, h, row) ==
    [k \in DOMAIN table \cup {h} |-> IF k = h THEN row ELSE table[k]]

\* what an operation did: its name, the order / message it was about, the
\* number of db.session.commit() calls it made, the exception it ended with
\* (None when it returned normally); logged: the exception it caught and
\* logged; wrote: the number of rows it inserted or updated
Event(op, h, msg, commits, exc) ==
    [op |-> op, hash |-> h, msg |-> msg, commits |-> commits, exc |-> exc,
     logged |-> None, wrote |-> 0]

\* no call made yet
NoCall == [fn |-> None]

\* no order is being hashed
NoHash == [phase |-> "idle"]

\* OrderWatcherClient.__init__: self._msg_id = 1, self._th = None (0: None,
\* k: the k-th Thread object the client created); alive: the threads whose
\* websoc.run_forever has not returned; sent: the ids of the envelopes
\* sent; last: the last call and how it ended
NewClient ==
    [th |-> 0, started |-> 0, alive |-> {}, msg_id |-> 1, sent |-> << >>,
     last |-> "__init__"]

Init ==
    /\ store = EmptyTable
    /\ now = 1
    /\ running = FALSE
    /\ pc = "start"
    /\ last_update_at = 0
    /\ fillables = {}
    /\ maybe_fillables = {}
    /\ cur = None
    /\ order_count_before = 0
    /\ dirty = {}
    /\ th = FALSE
    /\ ws = "idle"
    /\ orderCount = 0
    /\ ev = Event("init", None, NoMessage, 0, None)
    /\ call = NoCall
    /\ hasher = NoHash
    /\ client = NewClient

(***************************************************************************)
(* Time                                                                    *)
(***************************************************************************)
Tick ==
    /\ UNCHANGED << call, hasher, client >>
    /\ now < MaxTime
    /\ now' = now + 1
    /\ UNCHANGED << store, poll_vars, th, ws, orderCount, ev >>

(***************************************************************************)
(* SignedOrder.from_json and Orderbook.add_order                           *)
(***************************************************************************)
\* SignedOrder.from_json(order_json, check_validity): whether assert_valid
\* raises, and the order_status attribute of the new object (<< >>: unset)
from_json(order_json, check_validity) ==
    [raises |-> check_validity /\ ~order_json.schema_valid,
     order_status |-> order_json.test_order_status]

\* the column default of order_status, applied at INSERT to an unset attribute
ColumnDefault(status) == IF status = << >> THEN MAYBE_FILLABLE ELSE status[1]

\* Faulty variant: db.session.merge(order), which overwrites the stored row
add_order_merges(order_json) ==
    LET order == from_json(order_json, TRUE)
        h == order_json.hash
    IN  /\ UNCHANGED << now, poll_vars, th, ws, orderCount, call, hasher, client >>
        /\ IF order.raises
           THEN /\ UNCHANGED store
                /\ ev' = Event("add_order", h, NoMessage, 0, "ValidationError")
           ELSE /\ store' = Insert(store, h,
                                [order_status |-> ColumnDefault(order.order_status),
                                 last_updated_at |-> now])
                /\ ev' = [Event("add_order", h, NoMessage, 1, None) EXCEPT !.wrote = 1]

add_order(order_json) ==
    LET order == from_json(order_json, TRUE)
        h == order_json.hash
    IN  /\ UNCHANGED << now, poll_vars, th, ws, orderCount, call, hasher, client >>
        /\ IF order.raises
           THEN /\ UNCHANGED store
                /\ ev' = Event("add_order", h, NoMessage, 0, "ValidationError")
           ELSE IF h \in Stored
           THEN \* the hash is the primary key: the INSERT fails
                /\ UNCHANGED store
                /\ ev' = Event("add_order", h, NoMessage, 0, "IntegrityError")
           ELSE /\ store' = Insert(store, h,
                                [order_status |-> ColumnDefault(order.order_status),
                                 last_updated_at |-> now])
                /\ ev' = [Event("add_order", h, NoMessage, 1, None) EXCEPT !.wrote = 1]

AddOrder == \E order_json \in OrderJsons : add_order(order_json)

(***************************************************************************)
(* Strings and prices (db_models.py, constants.py)                         *)
(***************************************************************************)
\* a string is a sequence of characters; strings are compared as python and
\* the database compare them, character by character by code point
DigitChar == << "0", "1", "2", "3", "4", "5", "6", "7", "8", "9" >>

CharCode(c) ==
    CASE c = "." -> 46
      [] c = "0" -> 48 [] c = "1" -> 49 [] c = "2" -> 50 [] c = "3" -> 51
      [] c = "4" -> 52 [] c = "5" -> 53 [] c = "6" -> 54 [] c = "7" -> 55
      [] c = "8" -> 56 [] c = "9" -> 57

StrLess(a, b) ==
    \E i \in 1..(Len(b)) :
        /\ \A j \in 1..(i - 1) : j <= Len(a) /\ a[j] = b[j]
        /\ \/ i = Len(a) + 1
           \/ i <= Len(a) /\ CharCode(a[i]) < CharCode(b[i])

\* number of fractional digits of "{:.18f}"
PriceDecimals == 18

RECURSIVE NatDigits(_)
NatDigits(n) ==
    IF n < 10 THEN << n >> ELSE Append(NatDigits(n \div 10), n % 10)

\* the first k digits of rem / den after the point, and the remainder left
RECURSIVE FracDigits(_, _, _)
FracDigits(rem, den, k) ==
    IF k = 0 THEN << >>
    ELSE << (rem * 10) \div den >> \o FracDigits((rem * 10) % den, den, k - 1)

RECURSIVE FracRem(_, _, _)
FracRem(rem, den, k) ==
    IF k = 0 THEN rem ELSE FracRem((rem * 10) % den, den, k - 1)

\* a digit string plus one in its last place
RECURSIVE Incr(_)
Incr(ds) ==
    IF ds = << >> THEN << 1 >>
    ELSE IF ds[Len(ds)] < 9
         THEN [ds EXCEPT ![Len(ds)] = ds[Len(ds)] + 1]
         ELSE Append(Incr(SubSeq(ds, 1, Len(ds) - 1)), 0)

\* "{:.18f}".format(Decimal(num) / Decimal(den)), den > 0: the quotient
\* rounded half-even to 18 fractional digits
format_18f(num, den) ==
    LET ip == num \div den
        fr == FracDigits(num % den, den, PriceDecimals)
        r == FracRem(num % den, den, PriceDecimals)
        all == NatDigits(ip) \o fr
        up == \/ 2 * r > den
              \/ 2 * r = den /\ all[Len(all)] % 2 = 1
        ds == IF up THEN Incr(all) ELSE all
        n == Len(ds)
    IN  [i \in 1..(n + 1) |->
            IF i <= n - PriceDecimals THEN DigitChar[ds[i] + 1]
            ELSE IF i = n - PriceDecimals + 1 THEN "."
            ELSE DigitChar[ds[i - 1] + 1]]

ZERO_STR == << "0" >>

\* "{:.0f}".format(Decimal(2) ** 256) at the decimal context's 28 digits
MaxIntDigits == << 1,1,5,7,9,2,0,8,9,2,3,7,3,1,6,1,9,5,4,2,3,5,7,0,9,8,5 >>

MAX_INT_STR ==
    [i \in 1..78 |-> IF i <= Len(MaxIntDigits) THEN DigitChar[MaxIntDigits[i] + 1] ELSE "0"]

\* update_bid_price: taker amount per maker amount; the default on any error
update_bid_price(maker_asset_amount, taker_asset_amount) ==
    IF maker_asset_amount = 0 THEN ZERO_STR
    ELSE format_18f(taker_asset_amount, maker_asset_amount)

\* Faulty variant: the ask price defaults to the zero string
update_ask_price_defaults_to_zero(maker_asset_amount, taker_asset_amount) ==
    IF taker_asset_amount = 0 THEN ZERO_STR
    ELSE format_18f(maker_asset_amount, taker_asset_amount)

\* update_ask_price: maker amount per taker amount; the default on any error
update_ask_price(maker_asset_amount, taker_asset_amount) ==
    IF taker_asset_amount = 0 THEN MAX_INT_STR
    ELSE format_18f(maker_asset_amount, taker_asset_amount)

\* update_bid_ask_prices: both prices; the bare except of each method lets
\* no exception out
update_bid_ask_prices(maker_asset_amount, taker_asset_amount) ==
    [raises |-> None,
     bid_price |-> update_bid_price(maker_asset_amount, taker_asset_amount),
     ask_price |-> update_ask_price(maker_asset_amount, taker_asset_amount)]

\* the bid_price / ask_price columns: set by from_json (order.update()) and
\* never changed afterwards, so they are a function of the order's fields
bid_price ==
    [h \in Hashes |-> update_bid_price(OrderFields[h].maker_asset_amount,
                                       OrderFields[h].taker_asset_amount)]

ask_price ==
    [h \in Hashes |-> update_ask_price(OrderFields[h].maker_asset_amount,
                                       OrderFields[h].taker_asset_amount)]

(***************************************************************************)
(* utils/miscutils.py                                                      *)
(***************************************************************************)
Min(a, b) == IF a <= b THEN a ELSE b

\* arr[page_idx: page_idx + per_page] with page_idx = page - 1
paginate(arr, page, per_page) ==
    LET page_idx == page - 1
    IN  SubSeq(arr, page_idx + 1, Min(page_idx + per_page, Len(arr)))

\* str.lower() on the asset data and addresses of the model
Lower(str) ==
    CASE str = "WETH" -> "weth"
      [] str = "LONG" -> "long"
      [] str = "SHORT" -> "short"
      [] str = "0xM1" -> "0xm1"
      [] OTHER -> str

normalize_query_param(query_param) ==
    IF query_param = None THEN None ELSE Lower(query_param)

(***************************************************************************)
(* Orderbook (orderbook.py)                                                *)
(***************************************************************************)
\* rows come out of an unordered query in primary-key order
TableOrder == << "0xh1", "0xh2", "0xh3" >>

\* the rows of the table that satisfy cond, as a sequence
Query(table, cond(_)) ==
    SelectSeq(TableOrder, LAMBDA h : h \in DOMAIN table /\ cond(h))

\* stable sort of a sequence of orders by a string key, ascending, or
\* descending (reverse=True / desc()): equal keys keep their order
RECURSIVE InsertByKey(_, _, _, _)
InsertByKey(sorted, x, key, reverse) ==
    IF sorted = << >> THEN << x >>
    ELSE LET y == sorted[Len(sorted)]
             x_before_y == IF reverse THEN StrLess(key[y], key[x])
                           ELSE StrLess(key[x], key[y])
         IN  IF x_before_y
             THEN Append(InsertByKey(SubSeq(sorted, 1, Len(sorted) - 1), x, key, reverse), y)
             ELSE Append(sorted, x)

RECURSIVE SortByKey(_, _, _)
SortByKey(seq, key, reverse) ==
    IF seq = << >> THEN << >>
    ELSE InsertByKey(SortByKey(SubSeq(seq, 1, Len(seq) - 1), key, reverse),
                     seq[Len(seq)], key, reverse)

\* no full_asset_set argument
NoFullSet == [given |-> FALSE, LONG |-> None, SHORT |-> None]

\* Faulty variant: a taker that is the LONG asset is answered with the LONG
\* asset again instead of the complementary one
get_full_set_equivalent_same_asset(maker_asset, taker_asset, full_asset_set) ==
    LET long_asset == full_asset_set.LONG
        short_asset == full_asset_set.SHORT
    IN  IF maker_asset = long_asset
        THEN [raises |-> None, maker |-> taker_asset, taker |-> short_asset]
        ELSE IF maker_asset = short_asset
        THEN [raises |-> None, maker |-> taker_asset, taker |-> long_asset]
        ELSE IF taker_asset = long_asset
        THEN [raises |-> None, maker |-> long_asset, taker |-> maker_asset]
        ELSE IF taker_asset = short_asset
        THEN [raises |-> None, maker |-> long_asset, taker |-> maker_asset]
        ELSE [raises |-> "ValueError", maker |-> None, taker |-> None]

\* get_full_set_equivalent: the exception raised (None when it returns) and
\* the (maker, taker) pair returned
get_full_set_equivalent(maker_asset, taker_asset, full_asset_set) ==
    LET long_asset == full_asset_set.LONG
        short_asset == full_asset_set.SHORT
    IN  IF maker_asset = long_asset
        THEN [raises |-> None, maker |-> taker_asset, taker |-> short_asset]
        ELSE IF maker_asset = short_asset
        THEN [raises |-> None, maker |-> taker_asset, taker |-> long_asset]
        ELSE IF taker_asset = long_asset
        THEN [raises |-> None, maker |-> short_asset, taker |-> maker_asset]
        ELSE IF taker_asset = short_asset
        THEN [raises |-> None, maker |-> long_asset, taker |-> maker_asset]
        ELSE [raises |-> "ValueError", maker |-> None, taker |-> None]

\* Faulty variant: the filter lets the untested orders through
IsFillable_shows_maybe(status) == status >= 0

\* the filter of the orderbook queries on order_status
IsFillable(status) == status > 0

\* the orders of one (maker, taker) pair the orderbook shows
PairQuery(table, maker_asset, taker_asset) ==
    Query(table, LAMBDA h :
        /\ OrderFields[h].maker_asset_data = maker_asset
        /\ OrderFields[h].taker_asset_data = taker_asset
        /\ IsFillable(table[h].order_status))

\* the sort key of the merged list: sort_price of the orders of own (set
\* from own_price) and of eq (set from eq_price)
SortPrice(own, own_price, eq_price) ==
    [h \in Hashes |->
        IF \E i \in 1..Len(own) : own[i] = h THEN own_price[h] ELSE eq_price[h]]

get_bids(table, base_asset, quote_asset, full_asset_set, page, per_page) ==
    LET normalized_quote_asset == normalize_query_param(quote_asset)
        normalized_base_asset == normalize_query_param(base_asset)
        bids == SortByKey(PairQuery(table, normalized_quote_asset, normalized_base_asset),
                          bid_price, TRUE)
        eq == get_full_set_equivalent(normalized_quote_asset, normalized_base_asset,
                                      full_asset_set)
        eq_asks == PairQuery(table, normalize_query_param(eq.maker),
                             normalize_query_param(eq.taker))
    IN  IF ~full_asset_set.given
        THEN [raises |-> None, orders |-> paginate(bids, page, per_page),
              count |-> Len(bids)]
        ELSE IF eq.raises # None
        THEN [raises |-> eq.raises, orders |-> << >>, count |-> 0]
        ELSE [raises |-> None,
              orders |-> paginate(SortByKey(bids \o eq_asks,
                                            SortPrice(bids, bid_price, ask_price), TRUE),
                                  page, per_page),
              count |-> Len(bids) + Len(eq_asks)]

get_asks(table, base_asset, quote_asset, full_asset_set, page, per_page) ==
    LET normalized_quote_asset == normalize_query_param(quote_asset)
        normalized_base_asset == normalize_query_param(base_asset)
        asks == SortByKey(PairQuery(table, normalized_base_asset, normalized_quote_asset),
                          ask_price, FALSE)
        eq == get_full_set_equivalent(normalized_base_asset, normalized_quote_asset,
                                      full_asset_set)
        eq_bids == PairQuery(table, normalize_query_param(eq.maker),
                             normalize_query_param(eq.taker))
    IN  IF ~full_asset_set.given
        THEN [raises |-> None, orders |-> paginate(asks, page, per_page),
              count |-> Len(asks)]
        ELSE IF eq.raises # None
        THEN [raises |-> eq.raises, orders |-> << >>, count |-> 0]
        ELSE [raises |-> None,
              orders |-> paginate(SortByKey(asks \o eq_bids,
                                            SortPrice(asks, ask_price, bid_price), TRUE),
                                  page, per_page),
              count |-> Len(asks) + Len(eq_bids)]

\* asset_data[:SELECTOR_LENGTH], the proxy id an asset data starts with
ProxyId(asset_data) ==
    CASE asset_data \in {"weth", "long"} -> "erc20"
      [] asset_data = "short" -> "erc721"
      [] OTHER -> "unknown"

\* adu.encode_erc20_asset_data(address)
encode_erc20_asset_data(address) ==
    CASE address = "0xweth" -> "weth"
      [] address = "0xlong" -> "long"
      [] OTHER -> "other"

\* python's `a or b` on optional strings
Or(a, b) == IF a # None THEN a ELSE b

\* the arguments of get_orders, None when not given
NoArgs ==
    [maker_asset_proxy_id |-> None, taker_asset_proxy_id |-> None,
     maker_asset_address |-> None, taker_asset_address |-> None,
     maker_asset_data |-> None, taker_asset_data |-> None,
     maker_address |-> None]

get_orders(table, args, page, per_page) ==
    LET pre_filter ==
            [maker_asset_data |->
                Or(normalize_query_param(args.maker_asset_data),
                   IF args.maker_asset_address # None
                   THEN encode_erc20_asset_data(args.maker_asset_address) ELSE None),
             taker_asset_data |->
                Or(normalize_query_param(args.taker_asset_data),
                   IF args.taker_asset_address # None
                   THEN encode_erc20_asset_data(args.taker_asset_address) ELSE None),
             maker_address |-> normalize_query_param(args.maker_address)]
        filter_object == { k \in DOMAIN pre_filter : pre_filter[k] # None }
        orders == Query(table, LAMBDA h :
            /\ IsFillable(table[h].order_status)
            /\ args.maker_asset_proxy_id # None =>
                 ProxyId(OrderFields[h].maker_asset_data)
                    = normalize_query_param(args.maker_asset_proxy_id)
            /\ args.taker_asset_proxy_id # None =>
                 ProxyId(OrderFields[h].taker_asset_data)
                    = normalize_query_param(args.taker_asset_proxy_id)
            /\ \A k \in filter_object : OrderFields[h][k] = pre_filter[k])
    IN  [orders |-> paginate(orders, page, per_page), count |-> Len(orders)]

\* get_asset_pairs; order is the iteration order of the set of unique pairs,
\* a sequence that holds each of them once
get_asset_pairs(table, asset_data_a, asset_data_b, page, per_page, order) ==
    LET normalized_asset_a == normalize_query_param(asset_data_a)
        normalized_asset_b == normalize_query_param(asset_data_b)
        rows == Query(table, LAMBDA h :
            /\ IsFillable(table[h].order_status)
            /\ asset_data_a # None => OrderFields[h].maker_asset_data = normalized_asset_a
            /\ asset_data_b # None => OrderFields[h].taker_asset_data = normalized_asset_b)
        unique_asset_pairs ==
            { << OrderFields[rows[i]].maker_asset_data,
                 OrderFields[rows[i]].taker_asset_data >> : i \in 1..Len(rows) }
        listed == SelectSeq(order, LAMBDA pr : pr \in unique_asset_pairs)
    IN  IF \E pr \in unique_asset_pairs :
              ProxyId(pr[1]) = "unknown" \/ ProxyId(pr[2]) = "unknown"
        THEN [raises |-> "ValueError", pairs |-> << >>, count |-> 0]
        ELSE [raises |-> None, pairs |-> paginate(listed, page, per_page),
              count |-> Cardinality(unique_asset_pairs)]

(***************************************************************************)
(* OrderUpdateHandler: notification handling (listener thread)             *)
(***************************************************************************)
\* assignment of order.order_status followed by commit: the UPDATE is
\* emitted, and last_updated_at refreshed by onupdate=now_epoch_msecs, only
\* when the attribute's value changed
SetStatus(table, h, status, t) ==
    IF table[h].order_status = status
    THEN table
    ELSE [table EXCEPT ![h].order_status = status, ![h].last_updated_at = t]

\* get_order_by_hash: the order, or None for a ghost order (warning logged)
get_order_by_hash(table, order_hash) ==
    IF order_hash \in DOMAIN table THEN order_hash ELSE None

\* a handler's result: the table after it, the number of commits, the
\* exception it raised
Result(table, commits, exc) == [store |-> table, commits |-> commits, exc |-> exc]

\* Faulty variant: an order that is unfillable is not promoted
handle_fillable_order_keeps_negative(table, order_hash, t) ==
    LET order == get_order_by_hash(table, order_hash)
    IN  IF order # None
        THEN IF table[order].order_status < 0
             THEN Result(table, 1, None)
             ELSE Result(SetStatus(table, order, FILLABLE, t), 1, None)
        ELSE Result(table, 0, None)

\* Faulty variant: the commit is made whether or not the order exists
handle_fillable_order_commits_always(table, order_hash, t) ==
    LET order == get_order_by_hash(table, order_hash)
    IN  IF order # None
        THEN Result(SetStatus(table, order, FILLABLE, t), 1, None)
        ELSE Result(table, 1, None)

handle_fillable_order(table, order_hash, t) ==
    LET order == get_order_by_hash(table, order_hash)
    IN  IF order # None
        THEN Result(SetStatus(table, order, FILLABLE, t), 1, None)
        ELSE Result(table, 0, None)

\* Faulty variant: the expiry reason selects the expired grade
handle_unfillable_order_by_reason(table, order_hash, reason, t) ==
    LET order == get_order_by_hash(table, order_hash)
        grade == IF reason = "ORDER_FILL_EXPIRED" THEN UNFILLABLE_EXPIRED ELSE UNFILLABLE
    IN  IF order # None
        THEN Result(SetStatus(table, order, grade, t), 1, None)
        ELSE Result(table, 0, None)

handle_unfillable_order(table, order_hash, reason, t) ==
    LET order == get_order_by_hash(table, order_hash)
    IN  IF order # None
        THEN Result(SetStatus(table, order, UNFILLABLE, t), 1, None)
        ELSE Result(table, 0, None)

on_update(table, res, t) ==
    IF res.fmt = "result_nondict" THEN Result(table, 0, "AttributeError")
    ELSE IF res.orderHash = None THEN Result(table, 0, None)
    ELSE IF res.isValid = None THEN Result(table, 0, None)
    ELSE IF res.isValid = "False"
    THEN IF res.error \in unfillable_handlers
         THEN handle_unfillable_order(table, res.orderHash, res.error, t)
         ELSE Result(table, 0, "KeyError")
    ELSE handle_fillable_order(table, res.orderHash, t)

(***************************************************************************)
(* OrderWatcherClient.on_update_router (listener thread)                   *)
(***************************************************************************)
\* the exception json.loads(message)["result"] raises, None when it succeeds
decode_exc(message) ==
    CASE message.fmt = "notjson" -> "JSONDecodeError"
      [] message.fmt = "nonobject" -> "TypeError"
      [] message.fmt = "noresult" -> "KeyError"
      [] OTHER -> None

\* Faulty variant: KeyError is not among the exceptions caught
DecodeCaught_without_KeyError == {"JSONDecodeError", "TypeError"}

\* the exception types caught around the decoding of the message
DecodeCaught == {"JSONDecodeError", "TypeError", "KeyError"}

\* the router's result: exc is the exception that escapes to the listener;
\* logged is the exception that was caught and logged
on_update_router(table, message, t) ==
    LET dexc == decode_exc(message)
    IN  IF dexc # None
        THEN IF dexc \in DecodeCaught
             THEN [store |-> table, commits |-> 0, exc |-> None, logged |-> dexc]
             ELSE [store |-> table, commits |-> 0, exc |-> dexc, logged |-> None]
        ELSE LET r == on_update(table, message, t)
             IN  \* except Exception: logged and swallowed; the session's
                 \* uncommitted state is dropped with the app context
                 [store |-> r.store, commits |-> r.commits, exc |-> None,
                  logged |-> r.exc]

\* a message arrives on the long-lived connection
Notify ==
    /\ UNCHANGED << call, hasher, client >>
    /\ ws = "listening"
    /\ \E message \in Messages :
         LET r == on_update_router(store, message, now)
         IN  /\ store' = r.store
             /\ ws' = IF r.exc = None THEN ws ELSE "failed"
             /\ ev' = [Event("on_update_router", message.orderHash, message,
                             r.commits, r.exc)
                         EXCEPT !.logged = r.logged,
                                !.wrote = IF r.store # store THEN 1 ELSE 0]
    /\ UNCHANGED << now, poll_vars, th, orderCount >>

(***************************************************************************)
(* The order-watcher-server (environment)                                  *)
(***************************************************************************)
\* the server's answers to a request: a well-formed reply, or one of the
\* malformed ones (not json; json without 'result'; 'result' without
\* 'orderCount')
Responses == {"ok", "notjson", "noresult", "nocount"}

\* OrderWatcherClient._rpc: the value returned for the server's answer;
\* a non-json answer is logged and returned as the raw string
rpc(resp, count) ==
    CASE resp = "ok" -> [type |-> "dict", result |-> TRUE, orderCount |-> count]
      [] resp = "nocount" -> [type |-> "dict", result |-> TRUE, orderCount |-> -1]
      [] resp = "noresult" -> [type |-> "dict", result |-> FALSE, orderCount |-> -1]
      [] OTHER -> [type |-> "str", result |-> FALSE, orderCount |-> -1]

\* the exception self.owc.get_stats()["result"]["orderCount"] raises on the
\* value _rpc returned, None when it evaluates
order_count_exc(res) ==
    CASE res.type = "str" -> "TypeError"
      [] ~res.result -> "KeyError"
      [] res.orderCount < 0 -> "KeyError"
      [] OTHER -> None

\* the server handles ADD_ORDER: it starts to watch the order (accepted, and
\* the order was not watched yet) or does not
WatchAfterAdd(accepted) ==
    IF accepted /\ orderCount < MaxOrderCount THEN orderCount + 1 ELSE orderCount

\* another client of the server adds or removes an order
OtherClient ==
    /\ UNCHANGED << call, hasher, client >>
    /\ \E d \in {-1, 1} :
         /\ orderCount + d \in 0..MaxOrderCount
         /\ orderCount' = orderCount + d
    /\ UNCHANGED << store, now, poll_vars, th, ws, ev >>

(***************************************************************************)
(* OrderUpdateHandler.run (main thread)                                    *)
(***************************************************************************)
Max(S) == CHOOSE x \in S : \A y \in S : y <= x

\* Faulty variant: the filter last_updated_at >= self._last_update_at
non_unfillables_since_or_at(table, checkpoint) ==
    { h \in DOMAIN table :
        /\ table[h].order_status >= 0
        /\ (checkpoint # 0 => table[h].last_updated_at >= checkpoint) }

\* _fetch_non_unfillables: the hashes the query returns
non_unfillables(table, checkpoint) ==
    { h \in DOMAIN table :
        /\ table[h].order_status >= 0
        /\ (checkpoint # 0 => table[h].last_updated_at > checkpoint) }

\* the exception leaves run(): the app context is torn down (its session is
\* removed, uncommitted changes are lost) and the thread ends
Crash(exc, op) ==
    /\ pc' = "crashed"
    /\ fillables' = {}
    /\ maybe_fillables' = {}
    /\ cur' = None
    /\ dirty' = {}
    /\ ev' = Event(op, cur, NoMessage, 0, exc)
    /\ UNCHANGED << running, last_update_at, order_count_before >>

\* run(): self.owc.run(); self.running = True
RunStart ==
    /\ UNCHANGED << call, hasher, client >>
    /\ pc = "start"
    /\ th' = TRUE
    /\ ws' = IF th THEN ws ELSE "listening"
    /\ running' = TRUE
    /\ pc' = "loop"
    /\ ev' = Event("run", None, NoMessage, 0, None)
    /\ UNCHANGED << store, now, last_update_at, fillables, maybe_fillables, cur,
                    order_count_before, dirty, orderCount >>

\* while self.running: ... fillables, maybe_fillables = self._fetch_non_unfillables()
Fetch ==
    /\ UNCHANGED << call, hasher, client >>
    /\ pc = "loop"
    /\ running
    /\ LET fetched == non_unfillables(store, last_update_at)
           f == { h \in fetched : store[h].order_status > 0 }
           m == { h \in fetched : store[h].order_status = 0 }
       IN  /\ last_update_at' =
                IF fetched # {}
                THEN Max({ store[h].last_updated_at : h \in fetched })
                ELSE last_update_at
           /\ fillables' = f
           /\ maybe_fillables' = m
           /\ pc' = IF f # {} THEN "repush" ELSE IF m # {} THEN "mf" ELSE "loop"
    /\ ev' = Event("_fetch_non_unfillables", None, NoMessage, 0, None)
    /\ UNCHANGED << store, now, running, cur, order_count_before, dirty, th, ws,
                    orderCount >>

\* for order in fillables.values(): self.owc.add_order(...) -- request sent
RepushSend ==
    /\ UNCHANGED << call, hasher, client >>
    /\ pc = "repush"
    /\ \E h \in fillables :
         /\ cur' = h
         /\ fillables' = fillables \ {h}
    /\ pc' = "repush_wait"
    /\ ev' = Event("add_order_rpc", cur', NoMessage, 0, None)
    /\ UNCHANGED << store, now, running, last_update_at, maybe_fillables,
                    order_count_before, dirty, th, ws, orderCount >>

\* the server handles the ADD_ORDER and answers; the answer is not used
RepushRecv ==
    /\ UNCHANGED << call, hasher, client >>
    /\ pc = "repush_wait"
    /\ \E accepted \in BOOLEAN : orderCount' = WatchAfterAdd(accepted)
    /\ pc' = IF fillables # {} THEN "repush"
             ELSE IF maybe_fillables # {} THEN "mf" ELSE "loop"
    /\ cur' = None
    /\ ev' = Event("add_order_rpc_done", cur, NoMessage, 0, None)
    /\ UNCHANGED << store, now, running, last_update_at, fillables,
                    maybe_fillables, order_count_before, dirty, th, ws >>

\* handle_maybe_fillable_order(order, commit=False): first get_stats() sent
MfStart ==
    /\ UNCHANGED << call, hasher, client >>
    /\ pc = "mf"
    /\ \E h \in maybe_fillables :
         /\ cur' = h
         /\ maybe_fillables' = maybe_fillables \ {h}
    /\ pc' = "mf_stats_before"
    /\ ev' = Event("get_stats", cur', NoMessage, 0, None)
    /\ UNCHANGED << store, now, running, last_update_at, fillables,
                    order_count_before, dirty, th, ws, orderCount >>

\* order_count_before = get_stats()["result"]["orderCount"]; ADD_ORDER sent
MfStatsBefore ==
    /\ UNCHANGED << call, hasher, client >>
    /\ pc = "mf_stats_before"
    /\ \E resp \in Responses :
         LET exc == order_count_exc(rpc(resp, orderCount))
         IN  IF exc # None
             THEN Crash(exc, "handle_maybe_fillable_order")
             ELSE /\ order_count_before' = rpc(resp, orderCount).orderCount
                  /\ pc' = "mf_add"
                  /\ ev' = Event("get_stats_done", cur, NoMessage, 0, None)
                  /\ UNCHANGED << running, last_update_at, fillables,
                                  maybe_fillables, cur, dirty >>
    /\ UNCHANGED << store, now, th, ws, orderCount >>

\* the server handles the ADD_ORDER and answers (the answer is not used);
\* second get_stats() sent
MfAdd ==
    /\ UNCHANGED << call, hasher, client >>
    /\ pc = "mf_add"
    /\ \E accepted \in BOOLEAN : orderCount' = WatchAfterAdd(accepted)
    /\ pc' = "mf_stats_after"
    /\ ev' = Event("add_order_rpc_done", cur, NoMessage, 0, None)
    /\ UNCHANGED << store, now, running, last_update_at, fillables,
                    maybe_fillables, cur, order_count_before, dirty, th, ws >>

\* Faulty variant: the counts are not compared, the order is always promoted
Promote_unconditionally(count_before, count_after) == TRUE

\* Faulty variant: an unchanged count promotes too
Promote_on_equal(count_before, count_after) == count_after >= count_before

\* handle_maybe_fillable_order's decision on the two counts: whether the
\* order is set to FILLABLE
Promote(count_before, count_after) == count_after > count_before

\* Faulty variant: commit=True, every promotion is committed at once
MfStatsAfter_commits ==
    /\ UNCHANGED << call, hasher, client >>
    /\ pc = "mf_stats_after"
    /\ \E resp \in Responses :
         LET exc == order_count_exc(rpc(resp, orderCount))
             order_count_after == rpc(resp, orderCount).orderCount
             promoted == Promote(order_count_before, order_count_after)
         IN  IF exc # None
             THEN /\ Crash(exc, "handle_maybe_fillable_order")
                  /\ UNCHANGED store
             ELSE /\ store' = IF promoted
                             THEN [store EXCEPT ![cur].order_status = FILLABLE,
                                                ![cur].last_updated_at = now]
                             ELSE store
                  /\ dirty' = dirty
                  /\ pc' = IF maybe_fillables # {} THEN "mf" ELSE "commit"
                  /\ ev' = Event("handle_maybe_fillable_order", cur, NoMessage,
                                 IF promoted THEN 1 ELSE 0, None)
                  /\ UNCHANGED << running, last_update_at, fillables,
                                  maybe_fillables, cur, order_count_before >>
    /\ UNCHANGED << now, th, ws, orderCount >>

\* order_count_after = get_stats()["result"]["orderCount"]; the comparison;
\* commit=False, so the change stays in the session
MfStatsAfter ==
    /\ UNCHANGED << call, hasher, client >>
    /\ pc = "mf_stats_after"
    /\ \E resp \in Responses :
         LET exc == order_count_exc(rpc(resp, orderCount))
             order_count_after == rpc(resp, orderCount).orderCount
         IN  IF exc # None
             THEN Crash(exc, "handle_maybe_fillable_order")
             ELSE /\ dirty' = IF Promote(order_count_before, order_count_after)
                              THEN dirty \cup {cur} ELSE dirty
                  /\ pc' = IF maybe_fillables # {} THEN "mf" ELSE "commit"
                  /\ ev' = Event("handle_maybe_fillable_order", cur, NoMessage, 0, None)
                  /\ UNCHANGED << running, last_update_at, fillables,
                                  maybe_fillables, cur, order_count_before >>
    /\ UNCHANGED << store, now, th, ws, orderCount >>

\* the flush of the poll session: an UPDATE of order_status (and
\* last_updated_at) for every order whose attribute was set
Flush(table, changed, t) ==
    [h \in DOMAIN table |->
        IF h \in changed
        THEN [table[h] EXCEPT !.order_status = FILLABLE, !.last_updated_at = t]
        ELSE table[h]]

\* self._commit_db() after the loop over maybe_fillables
Commit ==
    /\ UNCHANGED << call, hasher, client >>
    /\ pc = "commit"
    /\ store' = Flush(store, dirty, now)
    /\ dirty' = {}
    /\ cur' = None
    /\ pc' = "loop"
    /\ ev' = [Event("_commit_db", None, NoMessage, 1, None)
                EXCEPT !.wrote = Cardinality(dirty)]
    /\ UNCHANGED << now, running, last_update_at, fillables, maybe_fillables,
                    order_count_before, th, ws, orderCount >>

\* while self.running fails: self.owc.stop()
ExitLoop ==
    /\ UNCHANGED << call, hasher, client >>
    /\ pc = "loop"
    /\ ~running
    /\ pc' = "stopped"
    /\ ws' = IF ws = "listening" THEN "closed" ELSE ws
    /\ th' = FALSE
    /\ ev' = Event("stop", None, NoMessage, 0, None)
    /\ UNCHANGED << store, now, running, last_update_at, fillables,
                    maybe_fillables, cur, order_count_before, dirty, orderCount >>

\* signal_handler: OSU.running = False; OSU.owc.stop()
SignalHandler ==
    /\ UNCHANGED << call, hasher, client >>
    /\ pc \notin {"start", "stopped", "crashed"}
    /\ running' = FALSE
    /\ ws' = IF ws = "listening" THEN "closed" ELSE ws
    /\ th' = FALSE
    /\ ev' = Event("signal_handler", None, NoMessage, 0, None)
    /\ UNCHANGED << store, now, pc, last_update_at, fillables, maybe_fillables,
                    cur, order_count_before, dirty, orderCount >>

Next ==
    \/ Tick
    \/ AddOrder
    \/ Notify
    \/ OtherClient
    \/ RunStart
    \/ Fetch
    \/ RepushSend
    \/ RepushRecv
    \/ MfStart
    \/ MfStatsBefore
    \/ MfAdd
    \/ MfStatsAfter
    \/ Commit
    \/ ExitLoop
    \/ SignalHandler

Spec == Init /\ [][Next]_vars

\* the listener thread and the order intake while the main thread is between
\* two poll cycles
NextListener ==
    \/ Tick
    \/ AddOrder
    \/ Notify
    \/ RunStart
    \/ SignalHandler

SpecListener == Init /\ [][NextListener]_vars

\* the main thread and the order intake while no notification arrives
NextPoll ==
    \/ Tick
    \/ AddOrder
    \/ OtherClient
    \/ RunStart
    \/ Fetch
    \/ RepushSend
    \/ RepushRecv
    \/ MfStart
    \/ MfStatsBefore
    \/ MfAdd
    \/ MfStatsAfter
    \/ Commit
    \/ ExitLoop
    \/ SignalHandler

SpecPoll == Init /\ [][NextPoll]_vars

(***************************************************************************)
(* Scheduling                                                              *)
(***************************************************************************)
\* The main thread takes its own steps (a query, a send, a commit, the test
\* of self.running) whenever it can.  The steps that end a websoc.recv()
\* (RepushRecv, MfStatsBefore, MfAdd, MfStatsAfter) need the server's answer:
\* create_connection(self.server_url) sets no timeout, so nothing makes them
\* happen when the server is silent.
MainThreadFairness ==
    /\ WF_vars(RunStart)
    /\ WF_vars(Fetch)
    /\ WF_vars(RepushSend)
    /\ WF_vars(MfStart)
    /\ WF_vars(Commit)
    /\ WF_vars(ExitLoop)

\* the main thread scheduled fairly, the server free to stay silent
SpecShutdown == Init /\ [][NextPoll]_vars /\ MainThreadFairness

\* An order-watcher-server that answers every request with a well-formed
\* reply and starts to watch every order it is sent for the first time.
\* add_order stores plain orders (status 0 by the column default).
AddPlainOrder ==
    \E order_json \in OrderJsons :
        /\ order_json.test_order_status = << >>
        /\ add_order(order_json)

\* the re-pushed order is one the server watches already
RepushRecvWatched == RepushRecv /\ orderCount' = orderCount

MfStatsBeforeAnswered == MfStatsBefore /\ pc' = "mf_add"

\* the maybe-fillable order is new to the server, which starts to watch it
MfAddAccepted == MfAdd /\ orderCount' = orderCount + 1

MfStatsAfterAnswered == MfStatsAfter /\ pc' # "crashed"

NextAnswering ==
    \/ Tick
    \/ AddPlainOrder
    \/ RunStart
    \/ Fetch
    \/ RepushSend
    \/ RepushRecvWatched
    \/ MfStart
    \/ MfStatsBeforeAnswered
    \/ MfAddAccepted
    \/ MfStatsAfterAnswered
    \/ Commit

\* the reconciler keeps running against that server: every step of the poll
\* cycle, the server's answers included, happens when it can
SpecAnswering ==
    /\ Init
    /\ [][NextAnswering]_vars
    /\ MainThreadFairness
    /\ WF_vars(RepushRecvWatched)
    /\ WF_vars(MfStatsBeforeAnswered)
    /\ WF_vars(MfAddAccepted)
    /\ WF_vars(MfStatsAfterAnswered)

\* the same server, and add_order taking every order json
NextAccepting ==
    \/ Tick
    \/ AddOrder
    \/ RunStart
    \/ Fetch
    \/ RepushSend
    \/ RepushRecvWatched
    \/ MfStart
    \/ MfStatsBeforeAnswered
    \/ MfAddAccepted
    \/ MfStatsAfterAnswered
    \/ Commit

SpecAccepting == Init /\ [][NextAccepting]_vars

(***************************************************************************)
(* Arguments of the orderbook queries that the properties range over       *)
(***************************************************************************)
AssetArgs == {"weth", "long", "short", "WETH"}

FullSetArgs == {NoFullSet, [given |-> TRUE, LONG |-> "long", SHORT |-> "short"]}

\* (page, per_page): the defaults, and second page of pages of one
PageArgs == { << 1, 20 >>, << 2, 1 >> }

OrdersArgs ==
    { NoArgs,
      [NoArgs EXCEPT !.maker_asset_proxy_id = "erc20"],
      [NoArgs EXCEPT !.taker_asset_proxy_id = "erc20", !.maker_address = "0xM1"],
      [NoArgs EXCEPT !.maker_asset_data = "SHORT"],
      [NoArgs EXCEPT !.taker_asset_address = "0xlong"] }

PairOrders ==
    { << << "weth", "long" >>, << "short", "weth" >> >>,
      << << "short", "weth" >>, << "weth", "long" >> >> }

\* the members of a sequence
Range(seq) == { seq[i] : i \in 1..Len(seq) }

\* C1: once an order's order_status is negative, it is never positive in a
\* later state (stated of every step: a negative status is not followed by a
\* positive one)
C1_StatusMonotonic ==
    [][\A h \in DOMAIN store :
          store[h].order_status < 0 => ~(store'[h].order_status > 0)]_vars

C3_AddOrderStoresMaybeFillable ==
    [][\A h \in Submitted :
          (h \notin DOMAIN store /\ h \in DOMAIN store')
             => store'[h].order_status = MAYBE_FILLABLE]_vars

\* C4: handle_maybe_fillable_order takes order_count_before from the first
\* get_stats, and after the ADD_ORDER sets the order to FILLABLE exactly when
\* the second count is greater than the first; the commit of the cycle
\* writes FILLABLE to the orders so set and leaves every other order as it is
C4_PromotedIffCountIncreased ==
    [][/\ (pc = "mf_stats_before" /\ pc' = "mf_add")
            => order_count_before' = orderCount
       /\ (pc = "mf_stats_after" /\ pc' \in {"mf", "commit"})
            => /\ (cur \in dirty') <=> (orderCount > order_count_before)
               /\ dirty' \ {cur} = dirty \ {cur}
               /\ store' = store
       /\ (pc = "commit" /\ pc' = "loop")
            => \A h \in DOMAIN store :
                  IF h \in dirty
                  THEN store'[h].order_status = FILLABLE
                  ELSE store'[h] = store[h]]_vars

\* the second count was greater, and the order handled is set to FILLABLE
C4_Witness ==
    /\ pc = "commit"
    /\ cur \in dirty
    /\ orderCount > order_count_before
    /\ store[cur].order_status = MAYBE_FILLABLE

\* C5: after a notification with isValid true for the hash of a stored order
\* is handled, the order's status is FILLABLE, and a commit was made
C5_ValidNotificationPromotes ==
    ( /\ ev.op = "on_update_router"
      /\ ev.msg.isValid = "True"
      /\ ev.msg.orderHash \in Stored )
    => /\ store[ev.msg.orderHash].order_status = FILLABLE
       /\ ev.commits = 1

\* a valid notification was handled and changed the status of the order
C5_Witness ==
    /\ ev.op = "on_update_router"
    /\ ev.msg.isValid = "True"
    /\ ev.msg.orderHash \in Stored
    /\ ev.wrote = 1
    /\ store[ev.msg.orderHash].order_status = FILLABLE

\* C6 as claimed: a notification with isValid false and the expiry reason
\* demotes the stored order to an expired grade
C6_ReasonSelectsGrade ==
    ( /\ ev.op = "on_update_router"
      /\ ev.msg.isValid = "False"
      /\ ev.msg.error = "ORDER_FILL_EXPIRED"
      /\ ev.msg.orderHash \in Stored )
    => store[ev.msg.orderHash].order_status
          \in {UNFILLABLE_EXPIRED, UNFILLABLE_EXPIRED_PARTIALLY_FILLED}

\* C6 as amended: a notification with isValid false and any reason of the
\* table demotes the stored order to UNFILLABLE (-1), whatever the reason,
\* and commits
C6_RecognizedReasonDemotesToUnfillable ==
    ( /\ ev.op = "on_update_router"
      /\ ev.msg.isValid = "False"
      /\ ev.msg.error \in unfillable_handlers
      /\ ev.msg.orderHash \in Stored )
    => /\ store[ev.msg.orderHash].order_status = UNFILLABLE
       /\ ev.commits = 1

\* an invalidity notification with the expiry reason demoted the order
C6_Witness ==
    /\ ev.op = "on_update_router"
    /\ ev.msg.isValid = "False"
    /\ ev.msg.error = "ORDER_FILL_EXPIRED"
    /\ ev.msg.orderHash \in Stored
    /\ ev.wrote = 1
    /\ store[ev.msg.orderHash].order_status = UNFILLABLE

\* C7: a notification with orderHash and isValid whose hash is not stored
\* changes no stored order, makes no commit and raises no error to the
\* listener
C7_GhostNotificationIsNoOp ==
    [][( /\ Notify
         /\ ev'.msg \in WellFormedMessages
         /\ ev'.msg.orderHash \notin DOMAIN store )
       => /\ store' = store
          /\ ev'.commits = 0
          /\ ev'.exc = None
          /\ ws' = ws]_vars

\* a notification for a hash that is not stored was handled while another
\* order is stored
C7_Witness ==
    /\ ev.op = "on_update_router"
    /\ ev.msg \in WellFormedMessages
    /\ ev.msg.orderHash \notin Stored
    /\ Stored # {}
    /\ ws = "listening"

\* C8: a malformed notification changes no stored order and leaves the
\* listener listening, so that the notifications after it are handled
C8_MalformedNotificationDropped ==
    [][( Notify /\ ev'.msg \in MalformedMessages )
       => /\ store' = store
          /\ ev'.exc = None
          /\ ws' = "listening"]_vars

\* a malformed notification was handled while orders are stored
C8_Witness ==
    /\ ev.op = "on_update_router"
    /\ ev.msg \in MalformedMessages
    /\ ev.logged = "KeyError"
    /\ Stored # {}
    /\ ws = "listening"

\* C9: a notification with isValid false whose reason is no key of the table
\* is not absorbed with the stored order unchanged and the listener carrying
\* on
C9_UnknownReasonIsFatal ==
    [][( /\ Notify
         /\ ev'.msg.isValid = "False"
         /\ ev'.msg.error \notin unfillable_handlers
         /\ ev'.msg.orderHash \in DOMAIN store )
       => ~( /\ store' = store
             /\ ev'.exc = None
             /\ ws' = "listening" )]_vars

\* C10: a malformed response to a request of the poll cycle does not crash
\* the polling loop
C10_PollLoopSurvivesMalformedResponse == pc # "crashed"

\* C11: once the reconciler is told to stop (running set to False after run()
\* set it), the polling loop eventually leaves (it stops, or it ends on an
\* exception) and the listener is no longer listening, also when the server
\* leaves a request unanswered
C11_ShutdownCompletes ==
    (~running /\ pc # "start") ~> (pc \in {"stopped", "crashed"} /\ ws # "listening")

\* C12: against a server that answers every request and accepts every
\* registration, every order stored at MAYBE_FILLABLE eventually leaves
\* MAYBE_FILLABLE (stated of the orders stored before the last instant of the
\* modelled clock, after which time could not pass)
C12_NoOrderStuckAtMaybeFillable ==
    \A h \in Submitted :
        (/\ h \in Stored
         /\ store[h].order_status = MAYBE_FILLABLE
         /\ store[h].last_updated_at < MaxTime)
            ~> (h \in Stored /\ store[h].order_status # MAYBE_FILLABLE)

(***************************************************************************)
(* Calls of the orderbook queries and of the utility functions, on every   *)
(* table of orders                                                         *)
(***************************************************************************)
\* the tables: any of the orders stored, each at any of three statuses
Tables ==
    UNION { [S -> [order_status : {UNFILLABLE, MAYBE_FILLABLE, FILLABLE},
                   last_updated_at : {1}]] : S \in SUBSET Hashes }

InitCalls ==
    /\ store \in Tables
    /\ now = 1
    /\ running = FALSE
    /\ pc = "start"
    /\ last_update_at = 0
    /\ fillables = {}
    /\ maybe_fillables = {}
    /\ cur = None
    /\ order_count_before = 0
    /\ dirty = {}
    /\ th = FALSE
    /\ ws = "idle"
    /\ orderCount = 0
    /\ ev = Event("init", None, NoMessage, 0, None)
    /\ call = NoCall
    /\ hasher = NoHash
    /\ client = NewClient

\* a call changes nothing but the record of the call
Returns(fn, args, ret) ==
    /\ call' = [fn |-> fn, args |-> args, ret |-> ret]
    /\ UNCHANGED << store, now, poll_vars, th, ws, orderCount, ev, hasher, client >>

CallGetBids ==
    \E base \in AssetArgs, quote \in AssetArgs, fs \in FullSetArgs, pg \in PageArgs :
        Returns("get_bids", << base, quote, fs, pg[1], pg[2] >>,
                get_bids(store, base, quote, fs, pg[1], pg[2]))

CallGetAsks ==
    \E base \in AssetArgs, quote \in AssetArgs, fs \in FullSetArgs, pg \in PageArgs :
        Returns("get_asks", << base, quote, fs, pg[1], pg[2] >>,
                get_asks(store, base, quote, fs, pg[1], pg[2]))

\* the full-set descriptors the function is called with
FullSets ==
    { [given |-> TRUE, LONG |-> "long", SHORT |-> "short"],
      [given |-> TRUE, LONG |-> "short", SHORT |-> "long"],
      [given |-> TRUE, LONG |-> "weth", SHORT |-> "long"] }

CallGetFullSetEquivalent ==
    \E maker_asset \in AssetArgs, taker_asset \in AssetArgs, fs \in FullSets :
        Returns("get_full_set_equivalent", << maker_asset, taker_asset, fs >>,
                get_full_set_equivalent(maker_asset, taker_asset, fs))

\* the lists paginate is called with: << 1, ..., n >>
Items == { [i \in 1..n |-> i] : n \in 0..MaxItems }

CallPaginate ==
    \E arr \in Items, page \in 1..MaxPage, per_page \in 1..MaxPerPage :
        Returns("paginate", << arr, page, per_page >>, paginate(arr, page, per_page))

CallUpdateBidAskPrices ==
    \E maker_asset_amount \in 0..MaxAmount, taker_asset_amount \in 0..MaxAmount :
        Returns("update_bid_ask_prices", << maker_asset_amount, taker_asset_amount >>,
                update_bid_ask_prices(maker_asset_amount, taker_asset_amount))

(***************************************************************************)
(* The wire format (SignedOrder.from_json / to_json)                       *)
(***************************************************************************)
\* a json value: a python str or int, with its text
StrVal(text) == [type |-> "str", text |-> text]

IntVal(text) == [type |-> "int", text |-> text]

\* the order fields of the wire format, with the numeric fields given as
\* strings or as integers
WireOrders ==
    [makerAddress : {StrVal("0xm1")},
     takerAddress : {StrVal("0x0")},
     makerFee : {StrVal("0"), IntVal("0")},
     takerFee : {StrVal("0")},
     senderAddress : {StrVal("0x0")},
     makerAssetAmount : {StrVal("1"), IntVal("1")},
     takerAssetAmount : {StrVal("9")},
     makerAssetData : {StrVal("weth")},
     takerAssetData : {StrVal("long")},
     exchangeAddress : {StrVal("0xe")},
     salt : {StrVal("7"), IntVal("7")},
     feeRecipientAddress : {StrVal("0x0")},
     expirationTimeSeconds : {IntVal("1550439701"), StrVal("1550439701")}]

\* ZeroExWeb3Client.get_order_hash: a hex string that depends on the order
\* fields through HexBytes(...) and int(...), so on their text and not on
\* their json type; different texts give different hashes
get_order_hash(order_json) ==
    StrVal(<< order_json.makerAddress.text, order_json.takerAddress.text,
           order_json.feeRecipientAddress.text, order_json.senderAddress.text,
           order_json.makerAssetAmount.text, order_json.takerAssetAmount.text,
           order_json.makerFee.text, order_json.takerFee.text,
           order_json.expirationTimeSeconds.text, order_json.salt.text,
           order_json.makerAssetData.text, order_json.takerAssetData.text,
           order_json.exchangeAddress.text >>)

\* a key the json does not have
Absent == [type |-> "absent", text |-> None]

\* the json of the order fields o with the two optional keys (a json object
\* has no order of keys)
WithKeys(o, hash, signature) ==
    [hash |-> hash,
     makerAddress |-> o.makerAddress,
     takerAddress |-> o.takerAddress,
     makerFee |-> o.makerFee,
     takerFee |-> o.takerFee,
     senderAddress |-> o.senderAddress,
     makerAssetAmount |-> o.makerAssetAmount,
     takerAssetAmount |-> o.takerAssetAmount,
     makerAssetData |-> o.makerAssetData,
     takerAssetData |-> o.takerAssetData,
     exchangeAddress |-> o.exchangeAddress,
     salt |-> o.salt,
     feeRecipientAddress |-> o.feeRecipientAddress,
     expirationTimeSeconds |-> o.expirationTimeSeconds,
     signature |-> signature]

\* the wire jsons: the order fields, with or without the order's hash, with
\* or without a signature
WireJsons ==
    { WithKeys(o, IF with_hash THEN get_order_hash(o) ELSE Absent,
               IF with_signature THEN StrVal("0xsig") ELSE Absent) :
        o \in WireOrders, with_hash \in BOOLEAN, with_signature \in BOOLEAN }

\* an attribute that was never set
Unset == [type |-> "NoneType", text |-> None]

\* Faulty variant: the expiration time is written as a string
to_json_expiration_as_string(order, include_hash, include_signature) ==
    [hash |-> IF include_hash THEN order.hash ELSE Absent,
     makerAddress |-> order.maker_address,
     takerAddress |-> order.taker_address,
     makerFee |-> order.maker_fee,
     takerFee |-> order.taker_fee,
     senderAddress |-> order.sender_address,
     makerAssetAmount |-> order.maker_asset_amount,
     takerAssetAmount |-> order.taker_asset_amount,
     makerAssetData |-> order.maker_asset_data,
     takerAssetData |-> order.taker_asset_data,
     exchangeAddress |-> order.exchange_address,
     salt |-> order.salt,
     feeRecipientAddress |-> order.fee_recipient_address,
     expirationTimeSeconds |-> StrVal(order.expiration_time_secs.text),
     signature |-> IF include_signature THEN order.signature ELSE Absent]

\* SignedOrder.to_json(include_hash, include_signature) of an order whose
\* hash is set
to_json(order, include_hash, include_signature) ==
    [hash |-> IF include_hash THEN order.hash ELSE Absent,
     makerAddress |-> order.maker_address,
     takerAddress |-> order.taker_address,
     makerFee |-> order.maker_fee,
     takerFee |-> order.taker_fee,
     senderAddress |-> order.sender_address,
     makerAssetAmount |-> order.maker_asset_amount,
     takerAssetAmount |-> order.taker_asset_amount,
     makerAssetData |-> order.maker_asset_data,
     takerAssetData |-> order.taker_asset_data,
     exchangeAddress |-> order.exchange_address,
     salt |-> order.salt,
     feeRecipientAddress |-> order.fee_recipient_address,
     expirationTimeSeconds |-> order.expiration_time_secs,
     signature |-> IF include_signature THEN order.signature ELSE Absent]

\* the attributes SignedOrder.from_json(order_json, include_signature) sets
\* from the wire fields of an order json that has them all, and the hash
\* order.update() computes from them
from_json_fields(order_json, include_signature) ==
    [maker_address |-> order_json.makerAddress,
     taker_address |-> order_json.takerAddress,
     maker_fee |-> order_json.makerFee,
     taker_fee |-> order_json.takerFee,
     sender_address |-> order_json.senderAddress,
     maker_asset_amount |-> order_json.makerAssetAmount,
     taker_asset_amount |-> order_json.takerAssetAmount,
     maker_asset_data |-> order_json.makerAssetData,
     taker_asset_data |-> order_json.takerAssetData,
     salt |-> order_json.salt,
     exchange_address |-> order_json.exchangeAddress,
     fee_recipient_address |-> order_json.feeRecipientAddress,
     expiration_time_secs |-> order_json.expirationTimeSeconds,
     signature |-> IF include_signature THEN order_json.signature ELSE Unset,
     hash |-> get_order_hash(order_json)]

CallFromJsonToJson ==
    \E order_json \in WireJsons :
        LET include_hash == order_json.hash # Absent
            include_signature == order_json.signature # Absent
        IN  Returns("from_json.to_json", << order_json, include_hash, include_signature >>,
                    to_json(from_json_fields(order_json, include_signature),
                            include_hash, include_signature))

NextCalls ==
    \/ CallGetBids
    \/ CallGetAsks
    \/ CallGetFullSetEquivalent
    \/ CallPaginate
    \/ CallUpdateBidAskPrices
    \/ CallFromJsonToJson

SpecCalls == InitCalls /\ [][NextCalls]_vars

\* a price as a fraction << numerator, denominator >>, and the numeric order
\* of two prices with positive denominators
BidNum(h) == << OrderFields[h].taker_asset_amount, OrderFields[h].maker_asset_amount >>

AskNum(h) == << OrderFields[h].maker_asset_amount, OrderFields[h].taker_asset_amount >>

NumLeq(p, q) == p[1] * q[2] <= q[1] * p[2]

\* whether the order is of the pair (maker_asset, taker_asset)
OfPair(h, maker_asset, taker_asset) ==
    /\ OrderFields[h].maker_asset_data = normalize_query_param(maker_asset)
    /\ OrderFields[h].taker_asset_data = normalize_query_param(taker_asset)

\* whether the numeric keys of the sequence of orders never increase / never
\* decrease from first to last
NonIncreasing(orders, num(_)) ==
    \A i, j \in 1..Len(orders) : i < j => NumLeq(num(orders[j]), num(orders[i]))

NonDecreasing(orders, num(_)) ==
    \A i, j \in 1..Len(orders) : i < j => NumLeq(num(orders[i]), num(orders[j]))

\* the order is among those get_bids returns for base = its taker asset and
\* quote = its maker asset, with the default page and per_page
InOwnBids(table, h) ==
    h \in Range(get_bids(table, OrderFields[h].taker_asset_data,
                         OrderFields[h].maker_asset_data, NoFullSet, 1, 20).orders)

\* C13: the order submitted to an empty store is then the only stored order
\* and is MAYBE_FILLABLE; the commit of a poll cycle that handled the only
\* stored order, against a server that accepts the registration, leaves the
\* order FILLABLE and returned by get_bids for its pair
C13_EndToEnd ==
    [][ /\ (store = EmptyTable /\ store' # EmptyTable)
            => /\ Cardinality(DOMAIN store') = 1
               /\ \A h \in DOMAIN store' : store'[h].order_status = MAYBE_FILLABLE
        /\ (pc = "commit" /\ pc' = "loop" /\ Cardinality(Stored) = 1)
            => \A h \in Stored :
                   /\ store'[h].order_status = FILLABLE
                   /\ InOwnBids(store', h) ]_vars

\* C14: the list get_bids returns is ordered by numerically non-increasing
\* bid price; with a full-set descriptor, by numerically non-increasing sort
\* key (bid price of the bids, ask price of the equivalent asks)
C14_BidsNonIncreasing ==
    (call.fn = "get_bids" /\ call.ret.raises = None) =>
        NonIncreasing(call.ret.orders,
                      LAMBDA h : IF OfPair(h, call.args[2], call.args[1])
                                 THEN BidNum(h) ELSE AskNum(h))

\* C15: the list get_asks returns is ordered by numerically non-decreasing
\* ask price; with a full-set descriptor, by numerically non-decreasing sort
\* key (ask price of the asks, bid price of the equivalent bids)
C15_AsksNonDecreasing ==
    (call.fn = "get_asks" /\ call.ret.raises = None) =>
        NonDecreasing(call.ret.orders,
                      LAMBDA h : IF OfPair(h, call.args[1], call.args[2])
                                 THEN AskNum(h) ELSE BidNum(h))

\* C16: when get_full_set_equivalent returns a pair, applying it to that pair
\* with the same descriptor returns the original (maker, taker) pair
C16_FullSetEquivalentInvolution ==
    (call.fn = "get_full_set_equivalent" /\ call.ret.raises = None) =>
        LET again == get_full_set_equivalent(call.ret.maker, call.ret.taker,
                                             call.args[3])
        IN  /\ again.raises = None
            /\ again.maker = call.args[1]
            /\ again.taker = call.args[2]

\* C17: get_full_set_equivalent raises ValueError exactly when neither maker
\* nor taker is the LONG or the SHORT asset; otherwise it returns, by the
\* first of these cases that applies: maker = LONG gives (taker, SHORT),
\* maker = SHORT gives (taker, LONG), taker = LONG gives (SHORT, maker),
\* taker = SHORT gives (LONG, maker)
C17_FullSetEquivalentCases ==
    call.fn = "get_full_set_equivalent" =>
        LET maker == call.args[1]
            taker == call.args[2]
            LONG == call.args[3].LONG
            SHORT == call.args[3].SHORT
            ret == call.ret
        IN  /\ (ret.raises = "ValueError") <=> ({maker, taker} \cap {LONG, SHORT} = {})
            /\ ret.raises \in {None, "ValueError"}
            /\ ret.raises = None =>
                 << ret.maker, ret.taker >> =
                    IF maker = LONG THEN << taker, SHORT >>
                    ELSE IF maker = SHORT THEN << taker, LONG >>
                    ELSE IF taker = LONG THEN << SHORT, maker >>
                    ELSE << LONG, maker >>

\* a call with a taker that is the LONG asset and a maker outside the full
\* set returned the SHORT asset and the maker
C17_Witness ==
    /\ call.fn = "get_full_set_equivalent"
    /\ call.args[2] = call.args[3].LONG
    /\ call.args[1] \notin {call.args[3].LONG, call.args[3].SHORT}
    /\ call.ret.raises = None
    /\ call.ret.maker = call.args[3].SHORT
    /\ call.ret.taker = call.args[1]

\* the python slice arr[lo:hi] for 0 <= lo <= hi
PySlice(arr, lo, hi) == SubSeq(arr, Min(lo, Len(arr)) + 1, Min(hi, Len(arr)))

\* C18: paginate(items, page, per_page) returns
\* items[(page-1)*per_page : page*per_page], so that consecutive pages do not
\* overlap and a page beyond the end is empty
C18_PaginateSlices ==
    call.fn = "paginate" =>
        call.ret = PySlice(call.args[1], (call.args[2] - 1) * call.args[3],
                           call.args[2] * call.args[3])

\* the text "0.000000000000000000"
ZeroPrice == << "0", "." >> \o [i \in 1..PriceDecimals |-> "0"]

\* C19 as claimed: update_bid_ask_prices never raises; a maker amount of 0
\* gives the ask price MAX_INT_STR, a taker amount of 0 gives the bid price
\* ZERO_STR
C19_PriceDefaultsAsClaimed ==
    call.fn = "update_bid_ask_prices" =>
        /\ call.ret.raises = None
        /\ call.args[1] = 0 => call.ret.ask_price = MAX_INT_STR
        /\ call.args[2] = 0 => call.ret.bid_price = ZERO_STR

\* C19 as amended: update_bid_ask_prices never raises; a maker amount of 0
\* gives the bid price ZERO_STR (and, with a taker amount above 0, the ask
\* price "0.000000000000000000"); a taker amount of 0 gives the ask price
\* MAX_INT_STR (and, with a maker amount above 0, the bid price
\* "0.000000000000000000")
C19_PriceDefaults ==
    call.fn = "update_bid_ask_prices" =>
        /\ call.ret.raises = None
        /\ call.args[1] = 0 => call.ret.bid_price = ZERO_STR
        /\ call.args[2] = 0 => call.ret.ask_price = MAX_INT_STR
        /\ (call.args[1] = 0 /\ call.args[2] > 0) => call.ret.ask_price = ZeroPrice
        /\ (call.args[2] = 0 /\ call.args[1] > 0) => call.ret.bid_price = ZeroPrice

\* the prices of an order with a positive maker amount and a taker amount of 0
\* were computed: the ask price is the sentinel maximum
C19_Witness ==
    /\ call.fn = "update_bid_ask_prices"
    /\ call.args[1] > 0
    /\ call.args[2] = 0
    /\ call.ret.ask_price = MAX_INT_STR
    /\ Len(call.ret.ask_price) = 78

\* C20: for a wire order json that carries all its fields,
\* from_json(json).to_json() with the matching include_hash and
\* include_signature flags equals the json, key for key and value for value
C20_WireRoundTrip ==
    call.fn = "from_json.to_json" => call.ret = call.args[1]

\* a json with hash, signature and integer-typed salt and expiration time
\* came back, its salt still an integer
C20_Witness ==
    /\ call.fn = "from_json.to_json"
    /\ call.args[2]
    /\ call.args[3]
    /\ call.args[1].salt.type = "int"
    /\ call.args[1].expirationTimeSeconds.type = "int"
    /\ call.ret.salt.type = "int"
    /\ call.ret.hash = call.args[1].hash
    /\ call.ret.signature = StrVal("0xsig")

\* ---------------------------------------------------------------------------
\* Order hashing: ZeroExWeb3Client.get_order_hash and SignedOrder.update_hash.
\* Byte strings are sequences of integers 0..255, hex texts are sequences of
\* one-character strings, and the 1600-bit Keccak state is a sequence of bits
\* in the order of the byte stream (bit 8*j+b is bit b of byte j, and lane
\* (x, y) holds bits 64*(5*y+x) .. 64*(5*y+x)+63).  keccak is
\* eth_utils.keccak, Keccak-256: the sponge over Keccak-f[1600] with rate
\* 136 bytes and the padding byte 0x01.
\* ---------------------------------------------------------------------------

\* Faulty variant: the header b"\x19\x00"
EIP191_HEADER_version_zero == << 25, 0 >>
\* b"\x19\x01"
EIP191_HEADER == << 25, 1 >>

\* the ASCII bytes of the literal hashed into
\* EIP712_DOMAIN_SEPARATOR_SCHEMA_HASH
DomainSchemaText ==
    <<
       69, 73, 80, 55, 49, 50, 68, 111, 109, 97, 105, 110, 40, 115,
       116, 114, 105, 110, 103, 32, 110, 97, 109, 101, 44, 115, 116,
       114, 105, 110, 103, 32, 118, 101, 114, 115, 105, 111, 110, 44,
       97, 100, 100, 114, 101, 115, 115, 32, 118, 101, 114, 105, 102,
       121, 105, 110, 103, 67, 111, 110, 116, 114, 97, 99, 116, 41 >>

\* the ASCII bytes of the literal hashed into EIP712_ORDER_SCHEMA_HASH
OrderSchemaText ==
    <<
       79, 114, 100, 101, 114, 40, 97, 100, 100, 114, 101, 115, 115,
       32, 109, 97, 107, 101, 114, 65, 100, 100, 114, 101, 115, 115,
       44, 97, 100, 100, 114, 101, 115, 115, 32, 116, 97, 107, 101,
       114, 65, 100, 100, 114, 101, 115, 115, 44, 97, 100, 100, 114,
       101, 115, 115, 32, 102, 101, 101, 82, 101, 99, 105, 112, 105,
       101, 110, 116, 65, 100, 100, 114, 101, 115, 115, 44, 97, 100,
       100, 114, 101, 115, 115, 32, 115, 101, 110, 100, 101, 114, 65,
       100, 100, 114, 101, 115, 115, 44, 117, 105, 110, 116, 50, 53,
       54, 32, 109, 97, 107, 101, 114, 65, 115, 115, 101, 116, 65,
       109, 111, 117, 110, 116, 44, 117, 105, 110, 116, 50, 53, 54,
       32, 116, 97, 107, 101, 114, 65, 115, 115, 101, 116, 65, 109,
       111, 117, 110, 116, 44, 117, 105, 110, 116, 50, 53, 54, 32,
       109, 97, 107, 101, 114, 70, 101, 101, 44, 117, 105, 110, 116,
       50, 53, 54, 32, 116, 97, 107, 101, 114, 70, 101, 101, 44, 117,
       105, 110, 116, 50, 53, 54, 32, 101, 120, 112, 105, 114, 97,
       116, 105, 111, 110, 84, 105, 109, 101, 83, 101, 99, 111, 110,
       100, 115, 44, 117, 105, 110, 116, 50, 53, 54, 32, 115, 97, 108,
       116, 44, 98, 121, 116, 101, 115, 32, 109, 97, 107, 101, 114,
       65, 115, 115, 101, 116, 68, 97, 116, 97, 44, 98, 121, 116, 101,
       115, 32, 116, 97, 107, 101, 114, 65, 115, 115, 101, 116, 68,
       97, 116, 97, 41 >>

\* b"0x Protocol"
ProtocolNameText ==
    <<
       48, 120, 32, 80, 114, 111, 116, 111, 99, 111, 108 >>

\* b"2"
ProtocolVersionText ==
    <<
       50 >>

HexDigits ==
    << "0", "1", "2", "3", "4", "5", "6", "7",
       "8", "9", "a", "b", "c", "d", "e", "f" >>

HexValue(c) == (CHOOSE i \in 1..16 : HexDigits[i] = c) - 1

\* HexBytes(text): the bytes of a 0x-prefixed hex text
HexBytes(text) ==
    [j \in 1..((Len(text) - 2) \div 2) |->
        16 * HexValue(text[2 * j + 1]) + HexValue(text[2 * j + 2])]

\* bytes.hex(): two lowercase hex digits per byte
ToHex(bytes) ==
    [k \in 1..(2 * Len(bytes)) |->
        LET b == bytes[(k + 1) \div 2]
        IN  HexDigits[(IF k % 2 = 1 THEN b \div 16 ELSE b % 16) + 1]]

Zeros(n) == [i \in 1..n |-> 0]

\* bytes.rjust(width, b"\0")
rjust(bytes, width) ==
    IF Len(bytes) >= width THEN bytes
    ELSE Zeros(width - Len(bytes)) \o bytes

\* int.to_bytes(32, byteorder="big") of a value below 2^31
to_bytes32(n) ==
    Zeros(28) \o << (n \div 16777216) % 256, (n \div 65536) % 256,
                    (n \div 256) % 256, n % 256 >>

\* the rate of Keccak-256 in bytes, and the rounds of Keccak-f[1600]
KeccakRate == 136
KeccakRounds == 24

\* pad10*1 with the Keccak domain byte 0x01
KeccakPad(msg) ==
    LET padlen == KeccakRate - (Len(msg) % KeccakRate)
    IN  IF padlen = 1 THEN msg \o << 129 >>
        ELSE msg \o << 1 >> \o Zeros(padlen - 2) \o << 128 >>

Xor(a, b) == (a + b) % 2

RECURSIVE Pow2(_)
Pow2(n) == IF n = 0 THEN 1 ELSE 2 * Pow2(n - 1)

Lane(A, x, y, z) == A[64 * (5 * y + x) + z + 1]

\* the rotation offsets of rho, KeccakRho[x + 1][y + 1]
KeccakRho ==
    << << 0, 36, 3, 41, 18 >>,
       << 1, 44, 10, 45, 2 >>,
       << 62, 6, 43, 15, 61 >>,
       << 28, 55, 25, 21, 56 >>,
       << 27, 20, 39, 8, 14 >> >>

\* the bits set in the round constants of iota, KeccakRC[round + 1]
KeccakRC ==
    << {0}, {1, 7, 15}, {1, 3, 7, 15, 63}, {15, 31, 63},
       {0, 1, 3, 7, 15}, {0, 31}, {0, 7, 15, 31, 63}, {0, 3, 15, 63},
       {1, 3, 7}, {3, 7}, {0, 3, 15, 31}, {1, 3, 31},
       {0, 1, 3, 7, 15, 31}, {0, 1, 3, 7, 63}, {0, 3, 7, 15, 63},
       {0, 1, 15, 63}, {1, 15, 63}, {7, 63}, {1, 3, 15},
       {1, 3, 31, 63}, {0, 7, 15, 31, 63}, {7, 15, 63}, {0, 31},
       {3, 15, 31, 63} >>

ThetaC(A, x, z) ==
    Xor(Xor(Xor(Lane(A, x, 0, z), Lane(A, x, 1, z)),
            Xor(Lane(A, x, 2, z), Lane(A, x, 3, z))),
        Lane(A, x, 4, z))

Theta(A, x, y, z) ==
    Xor(Lane(A, x, y, z),
        Xor(ThetaC(A, (x + 4) % 5, z),
            ThetaC(A, (x + 1) % 5, (z + 63) % 64)))

\* rho and pi: lane (x, y) is lane ((x + 3y) % 5, x) rotated left
RhoPi(A, x, y, z) ==
    LET x0 == (x + 3 * y) % 5
        y0 == x
    IN  Theta(A, x0, y0, (z + 64 - KeccakRho[x0 + 1][y0 + 1]) % 64)

Chi(A, x, y, z) ==
    Xor(RhoPi(A, x, y, z),
        (1 - RhoPi(A, (x + 1) % 5, y, z)) * RhoPi(A, (x + 2) % 5, y, z))

Iota(round, x, y, z) ==
    IF x = 0 /\ y = 0 /\ z \in KeccakRC[round + 1] THEN 1 ELSE 0

\* one round of Keccak-f[1600]
KeccakRound(A, round) ==
    [i \in 1..1600 |->
        LET z == (i - 1) % 64
            x == ((i - 1) \div 64) % 5
            y == (i - 1) \div 320
        IN  Xor(Chi(A, x, y, z), Iota(round, x, y, z))]

\* the state after xoring block number `block` of the padded message in
KeccakAbsorb(A, padded, block) ==
    [i \in 1..1600 |->
        IF i > 8 * KeccakRate THEN A[i]
        ELSE LET byte == padded[KeccakRate * (block - 1) + ((i - 1) \div 8) + 1]
             IN  Xor(A[i], (byte \div Pow2((i - 1) % 8)) % 2)]

\* the first 32 bytes of the state
KeccakSqueeze(A) ==
    [j \in 1..32 |->
        A[8 * j - 7] + 2 * A[8 * j - 6] + 4 * A[8 * j - 5] + 8 * A[8 * j - 4]
        + 16 * A[8 * j - 3] + 32 * A[8 * j - 2] + 64 * A[8 * j - 1]
        + 128 * A[8 * j]]

\* the texts of the orders that are hashed
NullAddress == << "0", "x" >> \o [i \in 1..40 |-> "0"]
OneAddress == << "0", "x" >> \o [i \in 1..39 |-> "0"] \o << "1" >>
EmptyBytes == << "0", "x" >>

\* the order of tests/test_order.py: every address null, every amount zero,
\* the asset data the null address, under the null exchange address
EmptyOrder ==
    [makerAddress |-> NullAddress, takerAddress |-> NullAddress,
     feeRecipientAddress |-> NullAddress, senderAddress |-> NullAddress,
     makerAssetAmount |-> 0, takerAssetAmount |-> 0, makerFee |-> 0,
     takerFee |-> 0, expirationTimeSeconds |-> 0, salt |-> 0,
     makerAssetData |-> NullAddress, takerAssetData |-> NullAddress,
     exchangeAddress |-> NullAddress]

HashedOrders ==
    { EmptyOrder,
      [EmptyOrder EXCEPT !.makerAddress = OneAddress,
                         !.makerAssetAmount = 258,
                         !.makerAssetData = EmptyBytes] }

\* the keccak calls of get_order_hash in the order they are evaluated: the
\* four module constants, the domain struct, the two asset data, the order
\* struct and the final digest; `done` holds the digests computed so far
LastDigest == 9

KeccakInput(n, order, done) ==
    CASE n = 1 -> DomainSchemaText
      [] n = 2 -> ProtocolNameText
      [] n = 3 -> ProtocolVersionText
      [] n = 4 -> OrderSchemaText
      [] n = 5 -> done[1] \o done[2] \o done[3]
                  \o rjust(HexBytes(order.exchangeAddress), 32)
      [] n = 6 -> HexBytes(order.makerAssetData)
      [] n = 7 -> HexBytes(order.takerAssetData)
      [] n = 8 -> done[4]
                  \o rjust(HexBytes(order.makerAddress), 32)
                  \o rjust(HexBytes(order.takerAddress), 32)
                  \o rjust(HexBytes(order.feeRecipientAddress), 32)
                  \o rjust(HexBytes(order.senderAddress), 32)
                  \o to_bytes32(order.makerAssetAmount)
                  \o to_bytes32(order.takerAssetAmount)
                  \o to_bytes32(order.makerFee)
                  \o to_bytes32(order.takerFee)
                  \o to_bytes32(order.expirationTimeSeconds)
                  \o to_bytes32(order.salt)
                  \o done[6] \o done[7]
      [] n = 9 -> EIP191_HEADER \o done[5] \o done[8]

Blocks(msg) == (Len(msg) \div KeccakRate) + 1

StartHash(order) ==
    [phase |-> "absorb", order |-> order, n |-> 1, block |-> 1, round |-> 0,
     A |-> Zeros(1600), done |-> << >>, hash |-> << >>]

\* keccak(): the next block of the message is xored into the state
Absorb ==
    /\ UNCHANGED << store, now, poll_vars, th, ws, orderCount, ev, call, client >>
    /\ hasher.phase = "absorb"
    /\ hasher' = [hasher EXCEPT
           !.phase = "permute",
           !.round = 0,
           !.A = KeccakAbsorb(hasher.A,
                     KeccakPad(KeccakInput(hasher.n, hasher.order,
                                           hasher.done)),
                     hasher.block)]

\* keccak(): one round of the permutation; after the last round the next
\* block is absorbed, or the digest is read when there is none
Permute ==
    /\ UNCHANGED << store, now, poll_vars, th, ws, orderCount, ev, call, client >>
    /\ hasher.phase = "permute"
    /\ LET last == hasher.round + 1 = KeccakRounds
           more == hasher.block
                     < Blocks(KeccakInput(hasher.n, hasher.order,
                                          hasher.done))
       IN  hasher' = [hasher EXCEPT
               !.A = KeccakRound(hasher.A, hasher.round),
               !.round = hasher.round + 1,
               !.block = IF last /\ more THEN @ + 1 ELSE @,
               !.phase = IF ~last THEN "permute"
                         ELSE IF more THEN "absorb" ELSE "squeeze"]

\* keccak() returns its digest and the next keccak call starts
Squeeze ==
    /\ UNCHANGED << store, now, poll_vars, th, ws, orderCount, ev, call, client >>
    /\ hasher.phase = "squeeze"
    /\ hasher' = [hasher EXCEPT
           !.done = Append(@, KeccakSqueeze(hasher.A)),
           !.A = Zeros(1600),
           !.block = 1,
           !.round = 0,
           !.n = IF @ = LastDigest THEN @ ELSE @ + 1,
           !.phase = IF hasher.n = LastDigest THEN "digest" ELSE "absorb"]

\* update_hash(): self.hash = "0x" + keccak(...).hex()
update_hash ==
    /\ UNCHANGED << store, now, poll_vars, th, ws, orderCount, ev, call, client >>
    /\ hasher.phase = "digest"
    /\ hasher' = [hasher EXCEPT
           !.phase = "hashed",
           !.hash = << "0", "x" >> \o ToHex(hasher.done[LastDigest])]

InitHash ==
    /\ store = EmptyTable
    /\ now = 1
    /\ running = FALSE
    /\ pc = "start"
    /\ last_update_at = 0
    /\ fillables = {}
    /\ maybe_fillables = {}
    /\ cur = None
    /\ order_count_before = 0
    /\ dirty = {}
    /\ th = FALSE
    /\ ws = "idle"
    /\ orderCount = 0
    /\ ev = Event("init", None, NoMessage, 0, None)
    /\ call = NoCall
    /\ hasher \in { StartHash(order) : order \in HashedOrders }
    /\ client = NewClient

NextHash ==
    \/ Absorb
    \/ Permute
    \/ Squeeze
    \/ update_hash

SpecHash == InitHash /\ [][NextHash]_vars

\* the digest of the test vector as a hex text
TestVectorHash ==
    << "0", "x",
       "f", "a", "a", "4", "9", "b", "3", "5", "f", "a", "e", "b", "9", "1",
       "9", "7", "e", "9", "c", "3", "b", "a", "7", "a", "5", "2", "0", "7",
       "5", "e", "6", "d", "a", "d", "1", "9", "7", "3", "9", "5", "4", "9",
       "f", "1", "5", "3", "b", "7", "7", "d", "f", "c", "f", "5", "9", "4",
       "0", "8", "a", "4", "b", "4", "2", "2" >>

\* C21: the order with all addresses null, all numeric fields 0 and null
\* asset data, under the null exchange address, hashes to
\* 0xfaa49b35faeb9197e9c3ba7a52075e6dad19739549f153b77dfcf59408a4b422, and
\* update_hash stores the digest as 0x followed by its 64 hex digits.
C21_HashTestVector ==
    hasher.phase = "hashed" =>
        /\ Len(hasher.hash) = 66
        /\ SubSeq(hasher.hash, 1, 2) = << "0", "x" >>
        /\ SubSeq(hasher.hash, 3, 66) = ToHex(hasher.done[LastDigest])
        /\ hasher.order = EmptyOrder <=> hasher.hash = TestVectorHash

\* update_hash has stored the hash of the test order
C21_Witness ==
    /\ hasher.phase = "hashed"
    /\ hasher.order = EmptyOrder
    /\ hasher.hash = TestVectorHash

\* C22: add_order of an order whose hash is already stored fails, and the
\* store is left as it was: the stored order keeps its order_status and its
\* other columns, and no second row with that hash appears
C22_ResubmissionFailsAndKeepsOrder ==
    [][(AddOrder /\ ev'.hash \in DOMAIN store)
          => /\ ev'.exc # None
             /\ ev'.wrote = 0
             /\ ev'.commits = 0
             /\ store' = store]_vars

\* a valid order json was submitted again after its order had left
\* MAYBE_FILLABLE, and the order still has the status it had
C22_Witness ==
    /\ ev.op = "add_order"
    /\ ev.exc = "IntegrityError"
    /\ ev.hash \in Stored
    /\ store[ev.hash].order_status # MAYBE_FILLABLE

(***************************************************************************)
(* OrderWatcherClient under any sequence of calls                          *)
(***************************************************************************)
MaxThreads == 3
MaxRequests == 3

\* Faulty variant: run() starts a thread whether or not one is set
run_restarts(c) ==
    [c EXCEPT !.th = c.started + 1,
              !.started = c.started + 1,
              !.alive = c.alive \cup {c.started + 1},
              !.last = "run"]

\* run(): "Already running..." when self._th is set, else a new Thread on
\* self.websoc.run_forever is stored in self._th and started
run(c) ==
    IF c.th # 0
    THEN [c EXCEPT !.last = "run: already running"]
    ELSE [c EXCEPT !.th = c.started + 1,
                   !.started = c.started + 1,
                   !.alive = c.alive \cup {c.started + 1},
                   !.last = "run"]

\* stop(): self.websoc.close(); self._th = None. The thread is not joined:
\* it is alive until its run_forever returns
stop(c) == [c EXCEPT !.th = 0, !.last = "stop"]

\* what can happen to a request: create_connection raises, send raises, or
\* the envelope is sent
RpcOutcomes == {"connect failed", "send failed", "sent"}

Methods == {"GET_STATS", "ADD_ORDER", "REMOVE_ORDER"}

\* Faulty variant: the id is increased for GET_STATS only
_rpc_counts_get_stats(c, method, outcome) ==
    IF outcome = "sent"
    THEN [c EXCEPT !.sent = Append(c.sent, c.msg_id),
                   !.msg_id = IF method = "GET_STATS" THEN c.msg_id + 1
                              ELSE c.msg_id,
                   !.last = method]
    ELSE [c EXCEPT !.last = outcome]

\* _rpc(method, params): the envelope carries "id": self._msg_id; it is sent
\* on a new connection and self._msg_id += 1 follows the send
_rpc(c, method, outcome) ==
    IF outcome = "sent"
    THEN [c EXCEPT !.sent = Append(c.sent, c.msg_id),
                   !.msg_id = c.msg_id + 1,
                   !.last = method]
    ELSE [c EXCEPT !.last = outcome]

ClientUnchanged ==
    UNCHANGED << store, now, poll_vars, th, ws, orderCount, ev, call, hasher >>

ClientRun ==
    /\ client.th # 0 \/ client.started < MaxThreads
    /\ client' = run(client)
    /\ ClientUnchanged

ClientStop ==
    /\ client' = stop(client)
    /\ ClientUnchanged

\* get_stats(), add_order(signed_order) or remove_order(order_hash)
ClientRpc ==
    /\ Len(client.sent) < MaxRequests
    /\ \E method \in Methods, outcome \in RpcOutcomes :
         client' = _rpc(client, method, outcome)
    /\ ClientUnchanged

\* websoc.run_forever returns in a listener thread: the web socket was
\* closed by stop(), or the connection ended
ListenerExit ==
    /\ \E t \in client.alive :
         client' = [client EXCEPT !.alive = client.alive \ {t},
                                  !.last = "run_forever returned"]
    /\ ClientUnchanged

NextClient ==
    \/ ClientRun
    \/ ClientStop
    \/ ClientRpc
    \/ ListenerExit

SpecClient == Init /\ [][NextClient]_vars

\* C23: a run() call made while the listener thread of the client is running
\* starts no thread and changes no state of the client
C23_RunIdempotentWhileRunning ==
    [][(ClientRun /\ client.th # 0 /\ client.th \in client.alive)
          => /\ client'.th = client.th
             /\ client'.started = client.started
             /\ client'.alive = client.alive
             /\ client'.msg_id = client.msg_id
             /\ client'.sent = client.sent]_vars

\* run() was called while the thread it started before was running
C23_Witness ==
    /\ client.last = "run: already running"
    /\ client.th # 0
    /\ client.alive = {client.th}

\* C24: the ids of the envelopes one client sent are strictly increasing
\* in the order they were sent
C24_RequestIdsStrictlyIncreasing ==
    \A i \in 1..Len(client.sent), j \in 1..Len(client.sent) :
        i < j => client.sent[i] < client.sent[j]

\* as many envelopes as the bound allows were sent, the last of them by the
\* last call
C24_Witness ==
    /\ Len(client.sent) = MaxRequests
    /\ client.msg_id = client.sent[MaxRequests] + 1
    /\ client.last \in Methods

\* C30: at most one listener thread of a client is alive at any time,
\* whatever run() and stop() calls were made
C30_AtMostOneListenerAlive == Cardinality(client.alive) <= 1

\* the poll cycle and the listener thread side by side while the reconciler
\* runs: orders come in, notifications arrive, the server answers in any
\* way; no shutdown, no other client of the server, one clock reading
NextBatch ==
    \/ AddOrder
    \/ Notify
    \/ RunStart
    \/ Fetch
    \/ RepushSend
    \/ RepushRecv
    \/ MfStart
    \/ MfStatsBefore
    \/ MfAdd
    \/ MfStatsAfter
    \/ Commit

SpecBatch == Init /\ [][NextBatch]_vars

\* C25: the steps of the poll cycle that handle the status-0 orders make no
\* commit; when the last of them is handled the cycle goes to its commit,
\* which is one db.session.commit() and ends the cycle; a notification that
\* changes the status of an order makes exactly one commit
C25_CommitBatching ==
    [][ /\ (MfStart \/ MfStatsBefore \/ MfAdd \/ MfStatsAfter)
              => ev'.commits = 0
        /\ (MfStatsAfter /\ pc' # "crashed" /\ maybe_fillables = {})
              => pc' = "commit"
        /\ (pc' = "commit" /\ pc # "commit")
              => (MfStatsAfter /\ maybe_fillables = {})
        /\ (pc = "commit" /\ pc' # "commit")
              => (ev'.op = "_commit_db" /\ ev'.commits = 1 /\ pc' = "loop")
        /\ (Notify /\ store' # store) => ev'.commits = 1 ]_vars

\* a poll cycle that handled two status-0 orders has committed both
\* promotions with its one commit
C25_Witness ==
    /\ ev.op = "_commit_db"
    /\ ev.commits = 1
    /\ ev.wrote = 2

\* C26: every committed change of the order_status of a stored order leaves
\* the order with a last_updated_at greater than the one it had
C26_MutationAdvancesLastUpdatedAt ==
    [][\A h \in DOMAIN store :
          (h \in DOMAIN store' /\ store'[h].order_status # store[h].order_status)
             => store'[h].last_updated_at > store[h].last_updated_at]_vars

\* the poll cycle and the listener thread side by side as the clock advances
NextFetch ==
    \/ Tick
    \/ NextBatch

SpecFetch == Init /\ [][NextFetch]_vars

\* C27: _fetch_non_unfillables returns exactly the stored orders with
\* order_status >= 0 whose last_updated_at is after the checkpoint (all of
\* them while there is no checkpoint), the ones with status > 0 as fillables
\* and the ones with status 0 as maybe_fillables; no order is in both and
\* none with a negative status is in either
C27_FetchReturnsNonUnfillables ==
    [][Fetch =>
          LET due == { h \in DOMAIN store :
                         /\ store[h].order_status >= 0
                         /\ \/ last_update_at = 0
                            \/ store[h].last_updated_at > last_update_at }
          IN  /\ fillables' \cup maybe_fillables' = due
              /\ fillables' \cap maybe_fillables' = {}
              /\ \A h \in fillables' : store[h].order_status > 0
              /\ \A h \in maybe_fillables' : store[h].order_status = 0]_vars

\* a fetch with a checkpoint returned the order updated after it and left
\* out a non-negative order that was not
C27_Witness ==
    /\ ev.op = "_fetch_non_unfillables"
    /\ fillables \cup maybe_fillables # {}
    /\ \A h \in fillables \cup maybe_fillables : store[h].last_updated_at = MaxTime
    /\ \E h \in Stored \ (fillables \cup maybe_fillables) :
         store[h].order_status >= 0

\* An order-watcher-server that answers every request with a well-formed
\* reply but is free not to start watching the order it is sent (it watches
\* it already, or it rejects it): the count need not increase.
NextRetry ==
    \/ Tick
    \/ AddPlainOrder
    \/ RunStart
    \/ Fetch
    \/ RepushSend
    \/ RepushRecv
    \/ MfStart
    \/ MfStatsBeforeAnswered
    \/ MfAdd
    \/ MfStatsAfterAnswered
    \/ Commit

\* the reconciler keeps running, every step of the poll cycle happens when
\* it can
SpecRetry ==
    /\ Init
    /\ [][NextRetry]_vars
    /\ MainThreadFairness
    /\ WF_vars(RepushRecv)
    /\ WF_vars(MfStatsBeforeAnswered)
    /\ WF_vars(MfAdd)
    /\ WF_vars(MfStatsAfterAnswered)

\* C28: an order that a poll cycle handled and left at MAYBE_FILLABLE,
\* because the server's orderCount did not increase, is handled again by a
\* later poll cycle (stated of the orders stored before the last instant of
\* the modelled clock)
C28_FailedPromotionIsRetried ==
    \A h \in Submitted :
        (/\ ev.op = "handle_maybe_fillable_order"
         /\ ev.hash = h
         /\ h \notin dirty
         /\ store[h].order_status = MAYBE_FILLABLE
         /\ store[h].last_updated_at < MaxTime)
            ~> (pc = "mf_stats_before" /\ cur = h)

\* An order-watcher-server that answers every request with a well-formed
\* reply and registers none of the orders the reconciler sends (it does not
\* start to watch them), while other clients add and remove orders of
\* their own.
MfAddDeclined == MfAdd /\ orderCount' = orderCount

NextRace ==
    \/ Tick
    \/ AddPlainOrder
    \/ OtherClient
    \/ RunStart
    \/ Fetch
    \/ RepushSend
    \/ RepushRecvWatched
    \/ MfStart
    \/ MfStatsBeforeAnswered
    \/ MfAddDeclined
    \/ MfStatsAfterAnswered
    \/ Commit

SpecRace == Init /\ [][NextRace]_vars

\* C29: with a server that registers none of the reconciler's orders, the
\* count changes between the two get_stats snapshots only by another
\* client's registration or removal, and handle_maybe_fillable_order sets
\* the order to FILLABLE only if the count rose between them: an order the
\* server did not register is promoted by that interleaving and by no other
C29_PromotionWithoutRegistrationNeedsRace ==
    [][/\ (pc \in {"mf_add", "mf_stats_after"} /\ orderCount' # orderCount)
            => OtherClient
       /\ (MfStatsAfter /\ cur \in dirty' \ dirty)
            => orderCount > order_count_before
       /\ \A h \in DOMAIN store :
            (store[h].order_status = MAYBE_FILLABLE
             /\ store'[h].order_status = FILLABLE) => h \in dirty]_vars

\* the cycle committed FILLABLE for an order the server had declined: the
\* count had risen by another client's registration
C29_Witness ==
    /\ ev.op = "_commit_db"
    /\ ev.wrote >= 1
    /\ \E h \in Stored : store[h].order_status = FILLABLE

====
